---- MODULE Spec2Model ----
(***************************************************************************)
(* Model of the agentsystems-sdk command line tool: the Health Gate        *)
(* (wait_for_agent_healthy), the Registry Authenticator and Agent          *)
(* Reconciler (setup_agents_from_config) and the Platform Up orchestrator  *)
(* (up_command) of src/agentsystems_sdk/commands/up.py.                    *)
(*                                                                         *)
(* The container runtime is the environment.  What a call to it returns    *)
(* (exit status of a subprocess, NotFound / APIError of the SDK, the       *)
(* health status a poll observes) is chosen with \E at the step that       *)
(* makes the call.                                                         *)
(*                                                                         *)
(* A Config is modelled by the interface setup_agents_from_config reads:   *)
(* cfg.enabled_registries(), iterated as the registries whose enabled flag *)
(* is set, and cfg.agents with each agent's name and disabled flag.        *)
(***************************************************************************)
EXTENDS Integers, Sequences, FiniteSets, TLC

VARIABLES
    cfg,         \* the loaded Config: [registries, agents]
    containers,  \* the runtime: agent name -> state of agentsystems-<name>-1
    mode,        \* AgentStartMode of the current setup_agents_from_config call
    spc,         \* position inside setup_agents_from_config
    regIdx,      \* index of the enabled registry being / last processed
    agentIdx,    \* index of the agent being / last processed
    iterOps,     \* runtime operations issued for the current loop item
    report,      \* last message printed for the current loop item
    pre,         \* state of the agent's container when its iteration began
    hg,          \* outcome of the last wait_for_agent_healthy call
    agentStore,  \* isolated_docker_config of setup_agents_from_config
    regFailed,   \* some registry of this run was skipped or failed
    agentFailed, \* some agent of this run failed (pull, create, start, health)
    hin,         \* arguments of a direct wait_for_agent_healthy call
    doc,         \* the config file a direct Config(path) call reads
    loaded,      \* outcome of that call and of images() on its result
    baseline,    \* what the previous setup_agents_from_config call left
    launch,      \* a container's environment being put together, and its inputs
    stack,       \* the compose stack: its services, volumes and network
    opts,        \* options and terminal state the running command holds
    pc,          \* position inside the running command ("none": no command)
    exitCode,    \* exit status of the command, once it has exited
    fatal,       \* the fatal condition the command has met, if any
    sessionStore,\* isolated_cfg of up_command
    cfgLoaded,   \* up_command holds a Config (cfg is not None)
    detach,      \* the --detach/--foreground option, once read
    trace        \* operations the command itself has issued, in order

setupVars == <<mode, spc, regIdx, agentIdx, iterOps, report, pre, hg,
               agentStore, regFailed, agentFailed>>

upVars == <<pc, exitCode, fatal, sessionStore, cfgLoaded, detach, trace>>

callVars == <<hin, doc, loaded>>

vars == <<cfg, containers, setupVars, callVars, baseline, launch, stack,
          opts, upVars>>

-----------------------------------------------------------------------------
(* Bounds of the model *)

MaxAgents == 2    \* longest agent list
MaxRegs == 2      \* most registries in a config
MaxObs == 2       \* length of a health timeline before it repeats its last entry
MaxLatency == 1   \* longest time one containers.get takes, in seconds
MaxTimeout == 5   \* longest timeout of a direct wait_for_agent_healthy call

(* Program constants *)

DefaultTimeout == 120   \* timeout: int = 120
PollInterval == 2       \* time.sleep(2)

Names == {"a", "b"}

Modes == {"none", "create", "all"}

-----------------------------------------------------------------------------
(* Config *)

RegistryConfigs == [enabled : BOOLEAN]

AgentConfigs == [name : Names, disabled : BOOLEAN]

SeqsUpTo(S, n) == UNION {[1..k -> S] : k \in 1..n}

\* a valid Config declares at least one registry and at least one agent
Configs == [registries : SeqsUpTo(RegistryConfigs, MaxRegs),
            agents : SeqsUpTo(AgentConfigs, MaxAgents)]

IsEnabled(r) == r.enabled

EnabledRegistries(c) == SelectSeq(c.registries, IsEnabled)

\* cname = f"agentsystems-{agent.name}-1": one container name per agent name
CName(agent) == agent.name

-----------------------------------------------------------------------------
(* Health Gate: wait_for_agent_healthy *)

\* what one client.containers.get(name) can show
Decisive == {"nohealth", "healthy", "unhealthy", "gone"}
NonDecisive == {"starting", "none"}
Observations == Decisive \cup NonDecisive

\* a timeline: what the 1st, 2nd, ... poll observes; the last entry repeats
Timelines == SeqsUpTo(Observations, MaxObs)

ObsAt(tl, k) == tl[IF k <= Len(tl) THEN k ELSE Len(tl)]

NoGate == [called |-> FALSE, result |-> FALSE, cause |-> "none",
           seen |-> <<>>, sleeps |-> 0, elapsed |-> 0]

\* deadline = time.time() + timeout
Deadline(t0, timeout) == t0 + timeout

\* the branches on one observation: "continue" falls through to time.sleep(2)
DecideIgnoringUnhealthy(obs) ==
    IF obs = "gone" THEN "notfound"
    ELSE IF obs = "nohealth" THEN "nohealth"
    ELSE IF obs = "healthy" THEN "healthy"
    ELSE "continue"

Decide(obs) ==
    IF obs = "gone" THEN "notfound"
    ELSE IF obs = "nohealth" THEN "nohealth"
    ELSE IF obs = "healthy" THEN "healthy"
    ELSE IF obs = "unhealthy" THEN "unhealthy"
    ELSE "continue"

\* the value returned for each way the gate ends
Returned(cause) == cause \in {"nohealth", "healthy"}

\* the loop test: while time.time() < deadline
ExpiredInclusive(now, deadline) == now > deadline

Expired(now, deadline) == ~(now < deadline)

RECURSIVE PollLoop(_, _, _, _, _)
\* Clock readings are relative to the instant the gate was entered.
PollLoop(tl, lat, deadline, now, acc) ==
    IF Expired(now, deadline)
    THEN [acc EXCEPT !.called = TRUE, !.cause = "timeout",
                     !.result = Returned("timeout"), !.elapsed = now]
    ELSE LET obs == ObsAt(tl, Len(acc.seen) + 1)
             d == Decide(obs)
             polled == [acc EXCEPT !.seen = Append(@, obs)]
         IN IF d # "continue"
            THEN [polled EXCEPT !.called = TRUE, !.cause = d,
                                !.result = Returned(d), !.elapsed = now + lat]
            ELSE PollLoop(tl, lat, deadline, now + lat + PollInterval,
                          [polled EXCEPT !.sleeps = @ + 1])

WaitForAgentHealthy(tl, lat, timeout) ==
    PollLoop(tl, lat, Deadline(0, timeout), 0, NoGate)

-----------------------------------------------------------------------------
(* Config loading: Config.__init__, Registry.__init__, Agent.__init__ and   *)
(* Config.images of src/agentsystems_sdk/config.py.  A document is the YAML *)
(* file as safe_load returns it; an optional key is a sequence of length at *)
(* most one.                                                                *)

MaxVersion == 2   \* largest config_version a document declares

DefaultVersion == 1     \* raw.get("config_version", 1)
SupportedVersion == 1   \* if self.version != 1

\* a registry entry: whether it has the url key, and its enabled value
RegistryEntries == [url : BOOLEAN, enabled : BOOLEAN]

\* an agent entry: its name key, if any, and how it names its image: by an
\* image key ("x", "y"), by registry_connection/repo/tag ("byconn"), or not
AgentEntries == [name : {<<>>} \cup {<<n>> : n \in Names},
                 ref : {"none", "x", "y", "byconn"}]

\* a top-level key: absent, present with no value (None), or a collection
Field(S, n) ==
    {[kind |-> "absent", items |-> <<>>], [kind |-> "null", items |-> <<>>],
     [kind |-> "given", items |-> <<>>]}
    \cup {[kind |-> "given", items |-> q] : q \in SeqsUpTo(S, n)}

ParsedDocs == [file : {"mapping"},
               version : {<<>>} \cup {<<v>> : v \in 0..MaxVersion},
               registries : Field(RegistryEntries, MaxRegs),
               connections : BOOLEAN,
               agents : Field(AgentEntries, MaxAgents)]

\* a path that does not exist, a file that is no YAML, a YAML list
UnreadableDoc(f) == [file |-> f, version |-> <<>>,
                     registries |-> [kind |-> "absent", items |-> <<>>],
                     connections |-> FALSE,
                     agents |-> [kind |-> "absent", items |-> <<>>]]

Docs == ParsedDocs \cup {UnreadableDoc(f) : f \in {"missing", "not_yaml", "not_mapping"}}

NoDoc == UnreadableDoc("none")

NoConfig == [version |-> 0, registries |-> <<>>, agents |-> <<>>]

NotLoaded == [called |-> FALSE, ok |-> FALSE, error |-> "none",
              config |-> NoConfig, queried |-> FALSE, images |-> <<>>]

Raise(e) == [NotLoaded EXCEPT !.called = TRUE, !.error = e]

\* self.version = raw.get("config_version", 1)
VersionOf(d) == IF d.version = <<>> THEN DefaultVersion ELSE d.version[1]

\* if self.version != 1: raise ValueError
VersionRejected(v) == v # SupportedVersion

\* Registry(name, data): data["url"] raises KeyError
RegistryOf(e) == [enabled |-> e.enabled]

\* Agent(a): a missing name or image key raises ValueError
AgentEntryRejected(e) == e.name = <<>> \/ e.ref \notin {"x", "y"}

AgentOf(e) == [name |-> e.name[1], image |-> e.ref]

\* if not self.registries / if not self.agents: raise ValueError
EmptyAlwaysAccepted(q) == FALSE

EmptyRejected(q) == q = <<>>

\* Config(path)
LoadConfig(d) ==
    IF d.file = "missing" THEN Raise("FileNotFoundError")
    ELSE IF d.file = "not_yaml" THEN Raise("YAMLError")
    ELSE IF d.file = "not_mapping" THEN Raise("AttributeError")
    ELSE IF VersionRejected(VersionOf(d)) THEN Raise("ValueError")
    ELSE IF d.registries.kind = "null" THEN Raise("AttributeError")
    ELSE IF \E k \in DOMAIN d.registries.items : ~d.registries.items[k].url
         THEN Raise("KeyError")
    ELSE IF d.agents.kind = "null" THEN Raise("TypeError")
    ELSE IF \E k \in DOMAIN d.agents.items :
                AgentEntryRejected(d.agents.items[k])
         THEN Raise("ValueError")
    ELSE IF EmptyRejected(d.registries.items) THEN Raise("ValueError")
    ELSE IF EmptyRejected(d.agents.items) THEN Raise("ValueError")
    ELSE [NotLoaded EXCEPT
            !.called = TRUE,
            !.ok = TRUE,
            !.config = [version |-> VersionOf(d),
                        registries |-> [k \in DOMAIN d.registries.items |->
                                          RegistryOf(d.registries.items[k])],
                        agents |-> [k \in DOMAIN d.agents.items |->
                                      AgentOf(d.agents.items[k])]]]

\* return [agent.image for agent in self.agents]
Images(c) == [k \in DOMAIN c.agents |-> c.agents[k].image]

-----------------------------------------------------------------------------
(* The compose stack and the options of a command *)

Stacks == [services : BOOLEAN, volumes : BOOLEAN, network : BOOLEAN]

NoStack == [services |-> FALSE, volumes |-> FALSE, network |-> FALSE]

FullStack == [services |-> TRUE, volumes |-> TRUE, network |-> TRUE]

NoOpts == [force |-> FALSE, fresh |-> FALSE, wait |-> FALSE, tty |-> FALSE,
           dir |-> "none", ghToken |-> FALSE, dockerToken |-> FALSE,
           img |-> 0]

\* no call of setup_agents_from_config is there to compare the runtime with
NoBaseline == [mode |-> "none", containers |-> <<>>]

-----------------------------------------------------------------------------
(* Environment of a new agent container: env_vars of setup_agents_from_config *)

MaxPatterns == 2   \* longest env_from list

\* A variable name is the sequence of the pieces a prefix can end after; the
\* piece "L" stands for LANGFUSE_. No name holds the piece "*".
LangfuseHost == <<"L", "H">>

LangfusePublicKey == <<"L", "P">>

LangfuseSecretKey == <<"L", "S">>

VarNames == {LangfuseHost, LangfusePublicKey, LangfuseSecretKey,
             <<"A">>, <<"A", "B">>}

\* a mapping gives every name a value or, for a name it does not hold, Unset
Unset == "unset"

NoVars == [k \in VarNames |-> Unset]

\* os.getenv("LANGFUSE_HOST", "http://langfuse-web:3000")
DefaultHost == "http://langfuse-web:3000"

\* agent.environment: names the config may set, each to a value of its own
StaticNames == {LangfuseHost, <<"A">>, <<"A", "B">>}

StaticEnvs ==
    {e \in [VarNames -> {Unset, "s"}] :
        \A k \in VarNames \ StaticNames : e[k] = Unset}

\* os.environ: a variable is unset, set to the empty string or set to "p"
Environs == [VarNames -> {Unset, "", "p"}]

\* agent.env_from: patterns with no, one or several trailing asterisks
Patterns == {<<"*">>, <<"L", "*">>, <<"A">>, <<"A", "*", "*">>}

EnvFroms == {<<>>} \cup SeqsUpTo(Patterns, MaxPatterns)

\* pattern.rstrip("*")
RECURSIVE Rstrip(_)
Rstrip(p) ==
    IF p # <<>> /\ p[Len(p)] = "*" THEN Rstrip(SubSeq(p, 1, Len(p) - 1))
    ELSE p

\* k.startswith(prefix)
StartsWith(k, prefix) ==
    /\ Len(prefix) <= Len(k)
    /\ SubSeq(k, 1, Len(prefix)) = prefix

\* os.getenv(k, default)
Getenv(environ, k, default) ==
    IF environ[k] = Unset THEN default ELSE environ[k]

\* env_vars.update(over), env_vars[k] = v: what is set last stays
UpdateKeepsOld(base, over) ==
    [k \in VarNames |-> IF base[k] # Unset THEN base[k] ELSE over[k]]

Update(base, over) ==
    [k \in VarNames |-> IF over[k] # Unset THEN over[k] ELSE base[k]]

\* the dict of the three LANGFUSE_ variables
Tracing(environ) ==
    [k \in VarNames |->
        CASE k = LangfuseHost -> Getenv(environ, k, DefaultHost)
          [] k = LangfusePublicKey -> Getenv(environ, k, "")
          [] k = LangfuseSecretKey -> Getenv(environ, k, "")
          [] OTHER -> Unset]

\* for k, v in os.environ.items(): if k.startswith(prefix): env_vars[k] = v
Matching(environ, pattern) ==
    [k \in VarNames |->
        IF StartsWith(k, Rstrip(pattern)) THEN environ[k] ELSE Unset]

\* if agent.env_from: for pattern in agent.env_from: ...
RECURSIVE Forward(_, _, _)
Forward(env, patterns, environ) ==
    IF patterns = <<>> THEN env
    ELSE Forward(Update(env, Matching(environ, Head(patterns))),
                 Tail(patterns), environ)

\* env_vars as passed to client.containers.create(environment=env_vars)
EnvVars(environment, env_from, environ) ==
    Forward(Update(environment, Tracing(environ)), env_from, environ)

\* no container is being created: there is no env_vars
NoLaunch == [at |-> "none"]

-----------------------------------------------------------------------------
(* Direct calls of the Health Gate *)

NoInput == [timeout |-> 0, timeline |-> <<>>, latency |-> 0]

HealthInputs == [timeout : 0..MaxTimeout, timeline : Timelines,
                 latency : 0..MaxLatency]

Idle ==
    /\ mode = "none"
    /\ spc = "idle"
    /\ regIdx = 0
    /\ agentIdx = 0
    /\ iterOps = <<>>
    /\ report = ""
    /\ pre = "absent"
    /\ hg = NoGate
    /\ agentStore = "none"
    /\ regFailed = FALSE
    /\ agentFailed = FALSE

\* no command is running
NoCommand ==
    /\ pc = "none"
    /\ exitCode = 0
    /\ fatal = "none"
    /\ sessionStore = "none"
    /\ cfgLoaded = FALSE
    /\ detach = FALSE
    /\ trace = <<>>

InitHealth ==
    /\ cfg = [registries |-> <<[enabled |-> TRUE]>>,
              agents |-> <<[name |-> "a", disabled |-> FALSE]>>]
    /\ containers = [n \in Names |-> IF n = "a" THEN "running" ELSE "absent"]
    /\ Idle
    /\ NoCommand
    /\ hin \in HealthInputs
    /\ doc = NoDoc
    /\ loaded = NotLoaded
    /\ baseline = NoBaseline
    /\ launch = NoLaunch
    /\ stack = NoStack
    /\ opts = NoOpts

CallHealthGate ==
    /\ hin # NoInput
    /\ ~hg.called
    /\ hg' = WaitForAgentHealthy(hin.timeline, hin.latency, hin.timeout)
    /\ containers' = IF hg'.cause = "notfound"
                     THEN [containers EXCEPT !["a"] = "absent"]
                     ELSE containers
    /\ UNCHANGED <<cfg, mode, spc, regIdx, agentIdx, iterOps, report, pre,
                   agentStore, regFailed, agentFailed, callVars, baseline,
                   launch, stack, opts, upVars>>

NextHealth == CallHealthGate

SpecHealth == InitHealth /\ [][NextHealth]_vars

-----------------------------------------------------------------------------
(* Direct calls of Config(path) and Config.images() *)

InitConfig ==
    /\ cfg = [registries |-> <<[enabled |-> TRUE]>>,
              agents |-> <<[name |-> "a", disabled |-> FALSE]>>]
    /\ containers = [n \in Names |-> "absent"]
    /\ Idle
    /\ NoCommand
    /\ hin = NoInput
    /\ doc \in Docs
    /\ loaded = NotLoaded
    /\ baseline = NoBaseline
    /\ launch = NoLaunch
    /\ stack = NoStack
    /\ opts = NoOpts

\* cfg = Config(path)
CallConfig ==
    /\ doc # NoDoc
    /\ ~loaded.called
    /\ loaded' = LoadConfig(doc)
    /\ UNCHANGED <<cfg, containers, setupVars, hin, doc, baseline, launch,
                   stack, opts, upVars>>

\* cfg.images()
CallImages ==
    /\ loaded.ok
    /\ ~loaded.queried
    /\ loaded' = [loaded EXCEPT !.queried = TRUE,
                                !.images = Images(loaded.config)]
    /\ UNCHANGED <<cfg, containers, setupVars, hin, doc, baseline, launch,
                   stack, opts, upVars>>

NextConfig == CallConfig \/ CallImages

SpecConfig == InitConfig /\ [][NextConfig]_vars

-----------------------------------------------------------------------------
(* The environment of one new container, for every agent and os.environ *)

InitEnv ==
    /\ cfg = [registries |-> <<[enabled |-> TRUE]>>,
              agents |-> <<[name |-> "a", disabled |-> FALSE]>>]
    /\ containers = [n \in Names |-> "absent"]
    /\ Idle
    /\ NoCommand
    /\ hin = NoInput
    /\ doc = NoDoc
    /\ loaded = NotLoaded
    /\ baseline = NoBaseline
    /\ \E s \in StaticEnvs, f \in EnvFroms, e \in Environs :
          launch = [at |-> "create", environment |-> s, env_from |-> f,
                    environ |-> e, env |-> NoVars]
    /\ stack = NoStack
    /\ opts = NoOpts

\* env_vars is put together from os.environ as it is at this point
CallEnvVars ==
    /\ launch.at = "create"
    /\ launch' = [launch EXCEPT
                     !.at = "created",
                     !.env = EnvVars(launch.environment, launch.env_from,
                                     launch.environ)]
    /\ UNCHANGED <<cfg, containers, setupVars, callVars, baseline, stack,
                   opts, upVars>>

NextEnv == CallEnvVars

SpecEnv == InitEnv /\ [][NextEnv]_vars

-----------------------------------------------------------------------------
(* Registry Authenticator and Agent Reconciler: setup_agents_from_config *)

Op(o, ok, env) == [op |-> o, ok |-> ok, env |-> env]

\* env_isolated["DOCKER_CONFIG"] = isolated_docker_config.name
EnvAmbient == "ambient"

EnvIsolated == "agents"

\* TemporaryDirectory.cleanup()
CleanupSkipped(store) == store

Cleanup(store) == "released"

Regs == EnabledRegistries(cfg)

\* the mode of a call that has returned and the runtime as it left it
LeftBy(m, cs) == [mode |-> m, containers |-> cs]

\* a poll that finds the container gone: someone else has changed the runtime
Since(g, b) == IF g.cause = "notfound" THEN NoBaseline ELSE b

Agent == cfg.agents[agentIdx]

\* if mode == AgentStartMode.none: return
SkipsSetupNever(m) == FALSE

SkipsSetup(m) == m = "none"

SetupEnter ==
    /\ spc = "idle"
    /\ pc \in {"none", "in_setup"}
    /\ hin = NoInput
    /\ IF SkipsSetup(mode)
       THEN /\ spc' = "done"
            /\ report' = "setup_skipped"
            /\ UNCHANGED agentStore
       ELSE /\ spc' = "regs"
            /\ report' = "setting_up"
            /\ agentStore' = "held"
    /\ UNCHANGED <<cfg, containers, mode, regIdx, agentIdx, iterOps, pre, hg,
                   regFailed, agentFailed, callVars, baseline, launch, stack,
                   opts, upVars>>

\* for reg_id, reg in cfg.enabled_registries().items(): pat = os.getenv(...)
NextRegistry ==
    /\ spc = "regs"
    /\ regIdx < Len(Regs)
    /\ regIdx' = regIdx + 1
    /\ iterOps' = <<>>
    /\ \E pat \in BOOLEAN :
          IF ~pat
          THEN /\ report' = "login_skipped"
               /\ regFailed' = TRUE
               /\ spc' = "regs"
          ELSE /\ report' = "logging_in"
               /\ UNCHANGED regFailed
               /\ spc' = "pwcmd"
    /\ UNCHANGED <<cfg, containers, mode, agentIdx, pre, hg, agentStore,
                   agentFailed, callVars, baseline, launch, stack, opts,
                   upVars>>

\* where the loop goes after the password command exits with the given status
AfterPasswordCommandAlways(ok) == "login"

AfterPasswordCommand(ok) == IF ok THEN "login" ELSE "regs"

\* subprocess.run(pw_cmd, check=True, env=env_isolated)
PasswordCommand ==
    /\ spc = "pwcmd"
    /\ \E ok \in BOOLEAN :
          /\ iterOps' = Append(iterOps, Op("pwcmd", ok, EnvIsolated))
          /\ spc' = AfterPasswordCommand(ok)
          /\ report' = IF ok THEN report ELSE "password_command_failed"
          /\ regFailed' = (regFailed \/ ~ok)
    /\ UNCHANGED <<cfg, containers, mode, regIdx, agentIdx, pre, hg,
                   agentStore, agentFailed, callVars, baseline, launch, stack,
                   opts, upVars>>

\* subprocess.run(["docker", "login", ...], check=True, env=env_isolated)
RegistryLogin ==
    /\ spc = "login"
    /\ \E ok \in BOOLEAN :
          /\ iterOps' = Append(iterOps, Op("login", ok, EnvIsolated))
          /\ report' = IF ok THEN "logged_in" ELSE "login_failed"
          /\ regFailed' = (regFailed \/ ~ok)
    /\ spc' = "regs"
    /\ UNCHANGED <<cfg, containers, mode, regIdx, agentIdx, pre, hg,
                   agentStore, agentFailed, callVars, baseline, launch, stack,
                   opts, upVars>>

\* the registry loop is exhausted: client = docker.from_env()
RegistriesDone ==
    /\ spc = "regs"
    /\ regIdx = Len(Regs)
    /\ spc' = "agents"
    /\ iterOps' = <<>>
    /\ report' = ""
    /\ UNCHANGED <<cfg, containers, mode, regIdx, agentIdx, pre, hg,
                   agentStore, regFailed, agentFailed, callVars, baseline,
                   launch, stack, opts, upVars>>

\* if agent.disabled: continue
SkipsAgentNever(agent) == FALSE

SkipsAgent(agent) == agent.disabled

\* for agent in cfg.agents:
NextAgent ==
    /\ spc = "agents"
    /\ agentIdx < Len(cfg.agents)
    /\ agentIdx' = agentIdx + 1
    /\ iterOps' = <<>>
    /\ hg' = NoGate
    /\ LET agent == cfg.agents[agentIdx + 1]
       IN /\ pre' = containers[CName(agent)]
          /\ IF SkipsAgent(agent)
             THEN /\ report' = "skipped_disabled"
                  /\ spc' = "agents"
             ELSE /\ report' = "pulling"
                  /\ spc' = "pull"
    /\ UNCHANGED <<cfg, containers, mode, regIdx, agentStore, regFailed,
                   agentFailed, callVars, baseline, launch, stack, opts,
                   upVars>>

\* setup_agents_from_config has returned: its locals no longer exist
LocalsGone ==
    /\ spc' = "idle"
    /\ regIdx' = 0
    /\ agentIdx' = 0
    /\ iterOps' = <<>>
    /\ report' = ""
    /\ pre' = "absent"
    /\ hg' = NoGate
    /\ agentStore' = "none"
    /\ regFailed' = FALSE
    /\ agentFailed' = FALSE

\* where the loop goes after docker pull exits with the given status
AfterPullAlways(ok) == "lookup"

AfterPull(ok) == IF ok THEN "lookup" ELSE "agents"

\* subprocess.run(["docker", "pull", agent.image], check=True, env=env_isolated)
PullImage ==
    /\ spc = "pull"
    /\ \E ok \in BOOLEAN :
          /\ iterOps' = Append(iterOps, Op("pull", ok, EnvIsolated))
          /\ spc' = AfterPull(ok)
          /\ report' = IF ok THEN report ELSE "pull_failed"
          /\ agentFailed' = (agentFailed \/ ~ok)
    /\ UNCHANGED <<cfg, containers, mode, regIdx, agentIdx, pre, hg,
                   agentStore, regFailed, callVars, baseline, launch, stack,
                   opts, upVars>>

\* client.containers.get(cname) raises NotFound exactly when none exists
FoundAlwaysMissing(state) == FALSE

Found(state) == state # "absent"

LookupContainer ==
    /\ spc = "lookup"
    /\ LET found == Found(containers[CName(Agent)])
       IN /\ iterOps' = Append(iterOps, Op("get", found, "sdk"))
          /\ IF found
             THEN /\ report' = "already_running"
                  /\ spc' = "wait_existing"
             ELSE /\ UNCHANGED report
                  /\ spc' = "create"
    /\ UNCHANGED <<cfg, containers, mode, regIdx, agentIdx, pre, hg,
                   agentStore, regFailed, agentFailed, callVars, baseline,
                   launch, stack, opts, upVars>>

\* what is kept of a gate call made by the reconciler: how it ended and what
\* its first poll observed; the other observations are the gate's own
Outcome(g) ==
    [g EXCEPT !.seen = SubSeq(@, 1, IF Len(@) > 0 THEN 1 ELSE 0),
              !.elapsed = 0]

\* every way wait_for_agent_healthy(client, cname) can end
GateOutcomes ==
    {Outcome(WaitForAgentHealthy(tl, lat, DefaultTimeout)) :
        tl \in Timelines, lat \in 0..MaxLatency}

\* the runtime after a poll found the container gone: someone removed it
AfterGate(g, name) ==
    IF g.cause = "notfound" THEN [containers EXCEPT ![name] = "absent"]
    ELSE containers

\* if not wait_for_agent_healthy(client, cname): print failure; continue
WaitExisting ==
    /\ spc = "wait_existing"
    /\ \E g \in GateOutcomes :
             /\ hg' = g
             /\ iterOps' = Append(iterOps, Op("health", g.result, "sdk"))
             /\ containers' = AfterGate(g, CName(Agent))
             /\ baseline' = Since(g, baseline)
             /\ report' = IF g.result THEN report ELSE "health_failed"
             /\ agentFailed' = (agentFailed \/ ~g.result)
    /\ spc' = "agents"
    /\ UNCHANGED <<cfg, mode, regIdx, agentIdx, pre, agentStore, regFailed,
                   callVars, launch, stack, opts, upVars>>

\* where the try block goes after a successful client.containers.create
AfterCreateAlwaysStarts(m) == "start"

AfterCreateNeverStarts(m) == "agents"

AfterCreate(m) == IF m = "all" THEN "start" ELSE "agents"

\* client.containers.create(agent.image, name=cname, ...); the runtime refuses
\* a name that is in use with an APIError
CreateContainer ==
    /\ spc = "create"
    /\ LET name == CName(Agent)
       IN \E ok \in BOOLEAN :
             /\ ok => containers[name] = "absent"
             /\ iterOps' = Append(iterOps, Op("create", ok, "sdk"))
             /\ IF ok
                THEN /\ containers' = [containers EXCEPT ![name] = "created"]
                     /\ spc' = AfterCreate(mode)
                     /\ report' = IF AfterCreate(mode) = "start"
                                  THEN report ELSE "created"
                     /\ UNCHANGED agentFailed
                ELSE /\ UNCHANGED containers
                     /\ spc' = "agents"
                     /\ report' = "create_failed"
                     /\ agentFailed' = TRUE
    /\ UNCHANGED <<cfg, mode, regIdx, agentIdx, pre, hg, agentStore,
                   regFailed, callVars, baseline, launch, stack, opts, upVars>>

\* container.start(); an APIError is caught by the handler of the try block
StartContainer ==
    /\ spc = "start"
    /\ LET name == CName(Agent)
       IN \E ok \in BOOLEAN :
             /\ iterOps' = Append(iterOps, Op("start", ok, "sdk"))
             /\ IF ok
                THEN /\ containers' = [containers EXCEPT ![name] = "running"]
                     /\ spc' = "wait_started"
                     /\ report' = "started"
                     /\ UNCHANGED agentFailed
                ELSE /\ UNCHANGED containers
                     /\ spc' = "agents"
                     /\ report' = "create_failed"
                     /\ agentFailed' = TRUE
    /\ UNCHANGED <<cfg, mode, regIdx, agentIdx, pre, hg, agentStore,
                   regFailed, callVars, baseline, launch, stack, opts, upVars>>

\* if wait_for_agent_healthy(client, cname): ready else failed health check
WaitStarted ==
    /\ spc = "wait_started"
    /\ \E g \in GateOutcomes :
             /\ hg' = g
             /\ iterOps' = Append(iterOps, Op("health", g.result, "sdk"))
             /\ containers' = AfterGate(g, CName(Agent))
             /\ baseline' = Since(g, baseline)
             /\ report' = IF g.result THEN "ready" ELSE "health_failed"
             /\ agentFailed' = (agentFailed \/ ~g.result)
    /\ spc' = "agents"
    /\ UNCHANGED <<cfg, mode, regIdx, agentIdx, pre, agentStore, regFailed,
                   callVars, launch, stack, opts, upVars>>

\* the agent loop is exhausted: isolated_docker_config.cleanup()
AgentsDone ==
    /\ spc = "agents"
    /\ agentIdx = Len(cfg.agents)
    /\ spc' = "done"
    /\ agentStore' = Cleanup(agentStore)
    /\ UNCHANGED <<cfg, containers, mode, regIdx, agentIdx, iterOps, report,
                   pre, hg, regFailed, agentFailed, callVars, baseline,
                   launch, stack, opts, upVars>>

-----------------------------------------------------------------------------
(* setup_agents_from_config called again and again on one runtime *)

InitAgents ==
    /\ cfg \in Configs
    /\ containers = [n \in Names |-> "absent"]
    /\ Idle
    /\ NoCommand
    /\ hin = NoInput
    /\ doc = NoDoc
    /\ loaded = NotLoaded
    /\ baseline = NoBaseline
    /\ launch = NoLaunch
    /\ stack = NoStack
    /\ opts = NoOpts

\* the next call, with every local of the previous one gone
SetupAgain ==
    /\ spc = "done"
    /\ pc = "none"
    /\ \E m \in Modes : mode' = m
    /\ LocalsGone
    /\ baseline' = NoBaseline
    /\ UNCHANGED <<cfg, containers, callVars, launch, stack, opts, upVars>>

NextAgents ==
    \/ SetupEnter
    \/ NextRegistry
    \/ PasswordCommand
    \/ RegistryLogin
    \/ RegistriesDone
    \/ NextAgent
    \/ PullImage
    \/ LookupContainer
    \/ WaitExisting
    \/ CreateContainer
    \/ StartContainer
    \/ WaitStarted
    \/ AgentsDone
    \/ SetupAgain

SpecAgents == InitAgents /\ [][NextAgents]_vars

-----------------------------------------------------------------------------
(* setup_agents_from_config called repeatedly in one mode, on a runtime that
   may hold agent containers already and that nobody else changes between
   two calls *)

InitRepeated ==
    /\ cfg \in Configs
    /\ containers \in [Names -> {"absent", "created", "running"}]
    /\ mode \in Modes
    /\ spc = "idle"
    /\ regIdx = 0
    /\ agentIdx = 0
    /\ iterOps = <<>>
    /\ report = ""
    /\ pre = "absent"
    /\ hg = NoGate
    /\ agentStore = "none"
    /\ regFailed = FALSE
    /\ agentFailed = FALSE
    /\ NoCommand
    /\ hin = NoInput
    /\ doc = NoDoc
    /\ loaded = NotLoaded
    /\ baseline = NoBaseline
    /\ launch = NoLaunch
    /\ stack = NoStack
    /\ opts = NoOpts

\* the next call in the same mode; what the call before has left is kept
SetupRepeated ==
    /\ spc = "done"
    /\ pc = "none"
    /\ LocalsGone
    /\ baseline' = LeftBy(mode, containers)
    /\ UNCHANGED <<cfg, containers, mode, callVars, launch, stack, opts,
                   upVars>>

NextRepeated ==
    \/ SetupEnter
    \/ NextRegistry
    \/ PasswordCommand
    \/ RegistryLogin
    \/ RegistriesDone
    \/ NextAgent
    \/ PullImage
    \/ LookupContainer
    \/ WaitExisting
    \/ CreateContainer
    \/ StartContainer
    \/ WaitStarted
    \/ AgentsDone
    \/ SetupRepeated

SpecRepeated == InitRepeated /\ [][NextRepeated]_vars

-----------------------------------------------------------------------------
(* Platform Up: up_command, and the status command *)

\* A command line option is drawn where up_command first reads it.

\* an operation the command itself issues, with the credential store it runs on
UpOp(o, ok, env) == [op |-> o, ok |-> ok, env |-> env]

\* env_base["DOCKER_CONFIG"] = isolated_cfg.name
EnvBase == "session"

\* sync_env_base(), called when the environment file exists: env_base takes
\* every variable of os.environ, DOCKER_CONFIG included when it is set there
SyncEnvBase(synced, set) == IF synced /\ set THEN "ambient" ELSE EnvBase

\* raise typer.Exit(code=1)
Abort(cause) ==
    /\ pc' = "exited"
    /\ exitCode' = 1
    /\ fatal' = cause

\* ensure_docker_installed(): exits when shutil.which("docker") finds nothing
EnsureDockerInstalled(installed) == installed

\* ensure_docker_installed()
UpEnsureDocker ==
    /\ pc = "start"
    /\ \E installed \in BOOLEAN :
          IF EnsureDockerInstalled(installed)
          THEN /\ pc' = "isolate"
               /\ UNCHANGED <<exitCode, fatal>>
          ELSE Abort("no_runtime_cli")
    /\ UNCHANGED <<cfg, containers, setupVars, callVars, baseline, launch,
                   stack, opts, sessionStore, cfgLoaded, detach, trace>>

\* isolated_cfg = tempfile.TemporaryDirectory(...); env_base["DOCKER_CONFIG"]
UpIsolate ==
    /\ pc = "isolate"
    /\ sessionStore' = "held"
    /\ pc' = "hub_login"
    /\ UNCHANGED <<cfg, containers, setupVars, callVars, baseline, launch,
                   stack, opts, exitCode, fatal, cfgLoaded, detach, trace>>

\* except subprocess.CalledProcessError: raise typer.Exit(code=1)
HubLoginFailureIgnored(ok) == FALSE

HubLoginFailureIsFatal(ok) == ~ok

\* if hub_user and hub_token: docker login docker.io (env=env_base)
UpHubLogin ==
    /\ pc = "hub_login"
    /\ \E creds \in {"none", "user_only", "both"}, ok \in BOOLEAN :
          IF creds = "both"
          THEN /\ trace' = Append(trace, UpOp("hub_login", ok, EnvBase))
               /\ fatal' = IF ok THEN fatal ELSE "hub_login_failed"
               /\ IF HubLoginFailureIsFatal(ok)
                  THEN pc' = "exited" /\ exitCode' = 1
                  ELSE pc' = "load_config" /\ UNCHANGED exitCode
          ELSE /\ ok
               /\ pc' = "load_config"
               /\ UNCHANGED <<trace, fatal, exitCode>>
    /\ UNCHANGED <<cfg, containers, setupVars, callVars, baseline, launch,
                   stack, opts, sessionStore, cfgLoaded, detach>>

\* except Exception as e: ...; raise typer.Exit(code=1)
InvalidConfigIgnored(file) == FALSE

InvalidConfigIsFatal(file) == file = "invalid"

\* if cfg_path.exists(): cfg = Config(cfg_path); then
\* if not project_dir.exists(): raise typer.Exit(code=1)
UpLoadConfig ==
    /\ pc = "load_config"
    /\ \E file \in {"no_project_dir", "absent", "invalid", "valid"} :
          /\ fatal' = CASE file = "invalid" -> "invalid_config"
                         [] file = "no_project_dir" -> "no_project_dir"
                         [] OTHER -> fatal
          /\ cfgLoaded' = (file = "valid")
          /\ IF InvalidConfigIsFatal(file) \/ file = "no_project_dir"
             THEN pc' = "exited" /\ exitCode' = 1
             ELSE pc' = "compose_args" /\ UNCHANGED exitCode
    /\ UNCHANGED <<cfg, containers, setupVars, callVars, baseline, launch,
                   stack, opts, sessionStore, detach, trace>>

\* compose_args(): exits when the project holds no compose file
ComposeArgs(found) == found

\* compose_args_list = compose_args(project_dir, langfuse=not no_langfuse)
UpComposeArgs ==
    /\ pc = "compose_args"
    /\ \E found \in BOOLEAN :
          IF ComposeArgs(found)
          THEN /\ pc' = "require_env"
               /\ UNCHANGED <<exitCode, fatal>>
          ELSE Abort("no_compose_file")
    /\ UNCHANGED <<cfg, containers, setupVars, callVars, baseline, launch,
                   stack, opts, sessionStore, cfgLoaded, detach, trace>>

\* if not env_path.exists() and env_file is None
MissingEnvNever(envExists, envFile) == FALSE

MissingEnv(envExists, envFile) == ~envExists /\ ~envFile

\* Require .env unless user supplied --env-file
UpRequireEnv ==
    /\ pc = "require_env"
    /\ \E envExists \in BOOLEAN, envFile \in BOOLEAN :
          /\ fatal' = IF ~envExists /\ ~envFile THEN "no_env_file" ELSE fatal
          /\ IF MissingEnv(envExists, envFile)
             THEN pc' = "exited" /\ exitCode' = 1
             ELSE pc' = "compose_down" /\ UNCHANGED exitCode
    /\ UNCHANGED <<cfg, containers, setupVars, callVars, baseline, launch,
                   stack, opts, sessionStore, cfgLoaded, detach, trace>>

\* run_command_with_env(): exits non-zero when the command fails
RunCommandWithEnv(ok) == ok

\* if fresh: run_command_with_env([... "down", "-v"], env_base)
UpComposeDown ==
    /\ pc = "compose_down"
    /\ \E fresh \in BOOLEAN, ok \in BOOLEAN :
          /\ opts' = [opts EXCEPT !.fresh = fresh]
          /\ IF fresh
             THEN /\ trace' = Append(trace, UpOp("compose_down", ok, EnvBase))
                  /\ IF RunCommandWithEnv(ok)
                     THEN /\ pc' = "compose_up"
                          /\ stack' = NoStack
                          /\ UNCHANGED <<exitCode, fatal>>
                     ELSE Abort("compose_failed") /\ UNCHANGED stack
             ELSE /\ ok
                  /\ pc' = "compose_up"
                  /\ UNCHANGED <<trace, exitCode, fatal, stack>>
    /\ UNCHANGED <<cfg, containers, setupVars, callVars, baseline, launch,
                   sessionStore, cfgLoaded, detach>>

\* run_command_with_env(up_cmd, env_base); cleanup_init_vars; load_dotenv
UpComposeUp ==
    /\ pc = "compose_up"
    /\ \E d \in BOOLEAN, ok \in BOOLEAN :
          /\ detach' = d
          /\ trace' = Append(trace, UpOp("compose_up", ok, EnvBase))
          /\ IF RunCommandWithEnv(ok)
             THEN /\ pc' = "setup"
                  /\ stack' = FullStack
                  /\ UNCHANGED <<exitCode, fatal>>
             ELSE Abort("compose_failed") /\ UNCHANGED stack
    /\ UNCHANGED <<cfg, containers, setupVars, callVars, baseline, launch,
                   opts, sessionStore, cfgLoaded>>

\* if cfg:
RunsSetupAlways(config) == TRUE

RunsSetup(config) == config

\* if cfg: setup_agents_from_config(cfg, project_dir, agents_mode)
UpSetupAgents ==
    /\ pc = "setup"
    /\ IF RunsSetup(cfgLoaded)
       THEN /\ pc' = "in_setup"
            /\ \E m \in Modes : mode' = m
       ELSE /\ pc' = "restart_gateway"
            /\ UNCHANGED mode
    /\ UNCHANGED <<cfg, containers, spc, regIdx, agentIdx, iterOps, report,
                   pre, hg, agentStore, regFailed, agentFailed, callVars,
                   baseline, launch, stack, opts, exitCode, fatal,
                   sessionStore, cfgLoaded, detach, trace>>

\* setup_agents_from_config returns: its locals are gone
UpSetupReturns ==
    /\ pc = "in_setup"
    /\ spc = "done"
    /\ pc' = "restart_gateway"
    /\ trace' = Append(trace, UpOp("setup_agents", TRUE, "agents"))
    /\ LocalsGone
    /\ UNCHANGED <<cfg, containers, mode, callVars, baseline, launch, stack,
                   opts, exitCode, fatal, sessionStore, cfgLoaded, detach>>

\* try: run_command_with_env([... "restart", "gateway"]) except Exception: pass
RestartFailureAlwaysAborts(ok) == ~ok

RestartFailureAborts(ok) == FALSE

UpRestartGateway ==
    /\ pc = "restart_gateway"
    /\ \E ok \in BOOLEAN, synced \in BOOLEAN, set \in BOOLEAN :
          /\ trace' = Append(trace,
                        UpOp("restart_gateway", ok, SyncEnvBase(synced, set)))
          /\ IF RestartFailureAborts(ok)
             THEN Abort("restart_failed")
             ELSE pc' = "wait_ready" /\ UNCHANGED <<exitCode, fatal>>
    /\ UNCHANGED <<cfg, containers, setupVars, callVars, baseline, launch,
                   stack, opts, sessionStore, cfgLoaded, detach>>

\* if detach and wait_ready: wait_for_gateway_ready(gateway_url)
UpWaitReady ==
    /\ pc = "wait_ready"
    /\ \E wait \in BOOLEAN, ready \in BOOLEAN :
          /\ opts' = [opts EXCEPT !.wait = wait]
          /\ IF detach /\ wait
             THEN trace' = Append(trace, UpOp("wait_for_gateway", ready, "none"))
             ELSE ready /\ UNCHANGED trace
    /\ pc' = "cleanup"
    /\ UNCHANGED <<cfg, containers, setupVars, callVars, baseline, launch,
                   stack, exitCode, fatal, sessionStore, cfgLoaded, detach>>

\* isolated_cfg.cleanup(), and the command returns
UpCleanup ==
    /\ pc = "cleanup"
    /\ sessionStore' = Cleanup(sessionStore)
    /\ pc' = "exited"
    /\ exitCode' = 0
    /\ UNCHANGED <<cfg, containers, setupVars, callVars, baseline, launch,
                   stack, opts, fatal, cfgLoaded, detach, trace>>

\* status_command: ensure_docker_installed()
StatusEnsureDocker ==
    /\ pc = "status_start"
    /\ \E installed \in BOOLEAN :
          IF EnsureDockerInstalled(installed)
          THEN /\ pc' = "status_list"
               /\ UNCHANGED <<exitCode, fatal>>
          ELSE Abort("no_runtime_cli")
    /\ UNCHANGED <<cfg, containers, setupVars, callVars, baseline, launch,
                   stack, opts, sessionStore, cfgLoaded, detach, trace>>

\* status_command: client.containers.list(...), print the table
StatusList ==
    /\ pc = "status_list"
    /\ trace' = Append(trace, UpOp("list_containers", TRUE, "none"))
    /\ pc' = "exited"
    /\ exitCode' = 0
    /\ UNCHANGED <<cfg, containers, setupVars, callVars, baseline, launch,
                   stack, opts, fatal, sessionStore, cfgLoaded, detach>>

Init ==
    /\ cfg \in Configs
    /\ containers = [n \in Names |-> "absent"]
    /\ Idle
    /\ hin = NoInput
    /\ doc = NoDoc
    /\ loaded = NotLoaded
    /\ baseline = NoBaseline
    /\ launch = NoLaunch
    /\ stack \in {NoStack, FullStack}
    /\ opts = NoOpts
    /\ pc \in {"start", "status_start"}
    /\ exitCode = 0
    /\ fatal = "none"
    /\ sessionStore = "none"
    /\ cfgLoaded = FALSE
    /\ detach = FALSE
    /\ trace = <<>>

Next ==
    \/ UpEnsureDocker
    \/ UpIsolate
    \/ UpHubLogin
    \/ UpLoadConfig
    \/ UpComposeArgs
    \/ UpRequireEnv
    \/ UpComposeDown
    \/ UpComposeUp
    \/ UpSetupAgents
    \/ SetupEnter
    \/ NextRegistry
    \/ PasswordCommand
    \/ RegistryLogin
    \/ RegistriesDone
    \/ NextAgent
    \/ PullImage
    \/ LookupContainer
    \/ WaitExisting
    \/ CreateContainer
    \/ StartContainer
    \/ WaitStarted
    \/ AgentsDone
    \/ UpSetupReturns
    \/ UpRestartGateway
    \/ UpWaitReady
    \/ UpCleanup
    \/ StatusEnsureDocker
    \/ StatusList

Spec == Init /\ [][Next]_vars

-----------------------------------------------------------------------------
(* clean_command of src/agentsystems_sdk/commands/clean.py *)

ContainerStates == {"absent", "created", "running"}

\* what a removal that may fail can leave of the agent containers
AfterRemoval(cs) ==
    {f \in [Names -> ContainerStates] :
        \A n \in Names : f[n] \in {cs[n], "absent"}}

\* what a removal that may fail can leave of the stack
StackAfterRemoval(st) ==
    {t \in Stacks : /\ t.services => st.services
                    /\ t.volumes => st.volumes
                    /\ t.network => st.network}

\* if not force: confirm = typer.confirm(...); if not confirm: Exit(code=0)
CancelledNever(force, confirm) == FALSE

Cancelled(force, confirm) == ~force /\ ~confirm

CleanConfirm ==
    /\ pc = "clean_start"
    /\ \E force \in BOOLEAN, confirm \in BOOLEAN :
          /\ opts' = [opts EXCEPT !.force = force]
          /\ trace' = IF force THEN trace
                      ELSE Append(trace, UpOp("confirm", confirm, "none"))
          /\ force => confirm
          /\ IF Cancelled(force, confirm)
             THEN pc' = "exited" /\ exitCode' = 0
             ELSE pc' = "clean_client" /\ UNCHANGED exitCode
    /\ UNCHANGED <<cfg, containers, setupVars, callVars, baseline, launch,
                   stack, fatal, sessionStore, cfgLoaded, detach>>

\* try: client = docker.from_env() except Exception: raise typer.Exit(code=1)
CleanClient ==
    /\ pc = "clean_client"
    /\ \E ok \in BOOLEAN :
          IF ok
          THEN pc' = "clean_down" /\ UNCHANGED <<exitCode, fatal>>
          ELSE Abort("docker_unavailable")
    /\ UNCHANGED <<cfg, containers, setupVars, callVars, baseline, launch,
                   stack, opts, sessionStore, cfgLoaded, detach, trace>>

\* down_command(delete_volumes=True, delete_containers=True, delete_all=True):
\* it returns or exits, having removed any part of the stack and of the
\* agent containers
DownCommand(returns) == returns

CleanDown ==
    /\ pc = "clean_down"
    /\ \E returns \in BOOLEAN :
          /\ trace' = Append(trace, UpOp("down", returns, "none"))
          /\ IF DownCommand(returns)
             THEN pc' = "clean_containers" /\ UNCHANGED <<exitCode, fatal>>
             ELSE Abort("down_failed")
    /\ stack' \in StackAfterRemoval(stack)
    /\ containers' \in AfterRemoval(containers)
    /\ UNCHANGED <<cfg, setupVars, callVars, baseline, launch, opts,
                   sessionStore, cfgLoaded, detach>>

\* for container in client.containers.list(all=True): container.remove(force=True)
CleanContainers ==
    /\ pc = "clean_containers"
    /\ IF stack.services \/ \E n \in Names : containers[n] # "absent"
       THEN /\ \E t \in StackAfterRemoval(stack) :
                  /\ t.volumes = stack.volumes
                  /\ t.network = stack.network
                  /\ stack' = t
            /\ containers' \in AfterRemoval(containers)
            /\ trace' = Append(trace,
                  UpOp("remove_containers",
                       ~stack'.services
                          /\ \A n \in Names : containers'[n] = "absent",
                       "none"))
       ELSE UNCHANGED <<stack, containers, trace>>
    /\ pc' = "clean_volumes"
    /\ UNCHANGED <<cfg, setupVars, callVars, baseline, launch, opts, exitCode,
                   fatal, sessionStore, cfgLoaded, detach>>

\* for volume in client.volumes.list(): volume.remove(force=True)
CleanVolumes ==
    /\ pc = "clean_volumes"
    /\ IF stack.volumes
       THEN \E ok \in BOOLEAN :
               /\ stack' = [stack EXCEPT !.volumes = ~ok]
               /\ trace' = Append(trace, UpOp("remove_volumes", ok, "none"))
       ELSE UNCHANGED <<stack, trace>>
    /\ pc' = "clean_network"
    /\ UNCHANGED <<cfg, containers, setupVars, callVars, baseline, launch,
                   opts, exitCode, fatal, sessionStore, cfgLoaded, detach>>

\* net = client.networks.get("agents_net"); net.remove(); the command returns
CleanNetwork ==
    /\ pc = "clean_network"
    /\ IF stack.network
       THEN \E ok \in BOOLEAN :
               /\ stack' = [stack EXCEPT !.network = ~ok]
               /\ trace' = Append(trace, UpOp("remove_network", ok, "none"))
       ELSE UNCHANGED <<stack, trace>>
    /\ pc' = "exited"
    /\ exitCode' = 0
    /\ UNCHANGED <<cfg, containers, setupVars, callVars, baseline, launch,
                   opts, fatal, sessionStore, cfgLoaded, detach>>

InitClean ==
    /\ cfg = [registries |-> <<[enabled |-> TRUE]>>,
              agents |-> <<[name |-> "a", disabled |-> FALSE]>>]
    /\ containers \in [Names -> ContainerStates]
    /\ Idle
    /\ hin = NoInput
    /\ doc = NoDoc
    /\ loaded = NotLoaded
    /\ baseline = NoBaseline
    /\ launch = NoLaunch
    /\ stack \in Stacks
    /\ opts = NoOpts
    /\ pc = "clean_start"
    /\ exitCode = 0
    /\ fatal = "none"
    /\ sessionStore = "none"
    /\ cfgLoaded = FALSE
    /\ detach = FALSE
    /\ trace = <<>>

NextClean ==
    \/ CleanConfirm
    \/ CleanClient
    \/ CleanDown
    \/ CleanContainers
    \/ CleanVolumes
    \/ CleanNetwork

SpecClean == InitClean /\ [][NextClean]_vars

-----------------------------------------------------------------------------
(* init of src/agentsystems_sdk/cli.py *)

RequiredImages == 2   \* len(_required_images())

\* return codes of a failed subprocess, which _run passes to typer.Exit
FailureCodes == {1, 128}

\* _run(cmd) raised typer.Exit(exc.returncode) and nothing caught it
RunFailed(cause) ==
    /\ pc' = "exited"
    /\ exitCode' \in FailureCodes
    /\ fatal' = cause

\* if project_dir is None: if not sys.stdin.isatty(): raise typer.Exit(code=1)
NoTargetIgnored(given, tty) == FALSE

NoTarget(given, tty) == ~given /\ ~tty

\* if project_dir.exists() and any(project_dir.iterdir()): raise typer.Exit(code=1)
NonEmptyIgnored(dir) == FALSE

NonEmpty(dir) == dir = "nonempty"

\* Determine target directory
InitTarget ==
    /\ pc = "init_start"
    /\ \E given \in BOOLEAN, tty \in BOOLEAN, dir \in {"free", "nonempty"} :
          /\ opts' = [opts EXCEPT !.tty = tty, !.dir = dir]
          /\ trace' = IF ~given /\ tty
                      THEN Append(trace, UpOp("prompt_dir", TRUE, "none"))
                      ELSE trace
          /\ fatal' = CASE ~given /\ ~tty -> "no_target_dir"
                        [] dir = "nonempty" -> "dir_not_empty"
                        [] OTHER -> fatal
          /\ IF NoTarget(given, tty) \/ NonEmpty(dir)
             THEN pc' = "exited" /\ exitCode' = 1
             ELSE pc' = "init_tokens" /\ UNCHANGED exitCode
    /\ UNCHANGED <<cfg, containers, setupVars, callVars, baseline, launch,
                   stack, sessionStore, cfgLoaded, detach>>

\* if gh_token is None and sys.stdin.isatty(): gh_token = typer.prompt(...)
Asked(token, tty) == ~token /\ tty

\* the prompts init has made: which token it asked for and whether it got one
Prompt(asked, kind, answered) ==
    IF asked THEN <<UpOp(kind, answered, "none")>> ELSE <<>>

\* a token is what the option or its environment variable gives; when that is
\* None and stdin is a terminal it is what the prompt returns (blank: None)
InitTokens ==
    /\ pc = "init_tokens"
    /\ \E gh \in BOOLEAN, dk \in BOOLEAN, ghIn \in BOOLEAN, dkIn \in BOOLEAN :
          /\ ghIn => Asked(gh, opts.tty)
          /\ dkIn => Asked(dk, opts.tty)
          /\ opts' = [opts EXCEPT !.ghToken = gh \/ ghIn,
                                  !.dockerToken = dk \/ dkIn]
          /\ trace' = trace \o Prompt(Asked(gh, opts.tty), "ask_gh", ghIn)
                            \o Prompt(Asked(dk, opts.tty), "ask_docker", dkIn)
    /\ pc' = "init_clone"
    /\ UNCHANGED <<cfg, containers, setupVars, callVars, baseline, launch,
                   stack, exitCode, fatal, sessionStore, cfgLoaded, detach>>

\* except typer.Exit: if gh_token is None and sys.stdin.isatty(): prompt, retry
CloneRetried(token, tty) == ~token /\ tty

\* _run(["git", "clone", ...]); the prompt after a failure takes no blank
InitClone ==
    /\ pc = "init_clone"
    /\ \E ok \in BOOLEAN :
          /\ trace' = Append(trace, UpOp("clone", ok, "none"))
                          \o Prompt(~ok /\ CloneRetried(opts.ghToken, opts.tty),
                                    "ask_gh", TRUE)
          /\ IF ok
             THEN /\ pc' = "init_docker"
                  /\ opts' = [opts EXCEPT !.dir = "cloned"]
                  /\ UNCHANGED <<exitCode, fatal>>
             ELSE IF CloneRetried(opts.ghToken, opts.tty)
             THEN /\ pc' = "init_reclone"
                  /\ opts' = [opts EXCEPT !.ghToken = TRUE]
                  /\ UNCHANGED <<exitCode, fatal>>
             ELSE RunFailed("clone_failed") /\ UNCHANGED opts
    /\ UNCHANGED <<cfg, containers, setupVars, callVars, baseline, launch,
                   stack, sessionStore, cfgLoaded, detach>>

\* the second _run(["git", "clone", ...]), inside the except block
InitReclone ==
    /\ pc = "init_reclone"
    /\ \E ok \in BOOLEAN :
          /\ trace' = Append(trace, UpOp("clone", ok, "none"))
          /\ IF ok
             THEN /\ pc' = "init_docker"
                  /\ opts' = [opts EXCEPT !.dir = "cloned"]
                  /\ UNCHANGED <<exitCode, fatal>>
             ELSE RunFailed("clone_failed") /\ UNCHANGED opts
    /\ UNCHANGED <<cfg, containers, setupVars, callVars, baseline, launch,
                   stack, sessionStore, cfgLoaded, detach>>

\* _ensure_docker_installed(): shutil.which("docker") is None
InitEnsureDocker ==
    /\ pc = "init_docker"
    /\ \E installed \in BOOLEAN :
          IF installed
          THEN pc' = "init_login" /\ UNCHANGED <<exitCode, fatal>>
          ELSE Abort("no_runtime_cli")
    /\ UNCHANGED <<cfg, containers, setupVars, callVars, baseline, launch,
                   stack, opts, sessionStore, cfgLoaded, detach, trace>>

\* _docker_login_if_needed(docker_token): runs on the user's own runtime config
InitLogin ==
    /\ pc = "init_login"
    /\ IF opts.dockerToken
       THEN \E ok \in BOOLEAN :
               /\ trace' = Append(trace, UpOp("login", ok, "ambient"))
               /\ IF ok
                  THEN pc' = "init_pull" /\ UNCHANGED <<exitCode, fatal>>
                  ELSE RunFailed("login_failed")
       ELSE /\ pc' = "init_pull"
            /\ UNCHANGED <<trace, exitCode, fatal>>
    /\ opts' = [opts EXCEPT !.img = 1]
    /\ UNCHANGED <<cfg, containers, setupVars, callVars, baseline, launch,
                   stack, sessionStore, cfgLoaded, detach>>

\* except typer.Exit: if docker_token is None and sys.stdin.isatty(): prompt, retry
PullRetriedAlways(token, tty) == TRUE

PullRetried(token, tty) == ~token /\ tty

\* where the loop over _required_images() goes after the pull of image i
AfterImage(i) == IF i < RequiredImages THEN "init_pull" ELSE "init_done"

\* for img in _required_images(): _run(["docker", "pull", img]); the prompt
\* after a failure takes no blank
InitPull ==
    /\ pc = "init_pull"
    /\ \E ok \in BOOLEAN :
          /\ trace' = Append(trace, UpOp("pull", ok, "ambient"))
                          \o Prompt(~ok /\ PullRetried(opts.dockerToken,
                                                       opts.tty),
                                    "ask_docker", TRUE)
          /\ IF ok
             THEN /\ pc' = AfterImage(opts.img)
                  /\ opts' = [opts EXCEPT !.img = @ + 1]
                  /\ UNCHANGED <<exitCode, fatal>>
             ELSE IF PullRetried(opts.dockerToken, opts.tty)
             THEN /\ pc' = "init_relogin"
                  /\ opts' = [opts EXCEPT !.dockerToken = TRUE]
                  /\ UNCHANGED <<exitCode, fatal>>
             ELSE RunFailed("pull_failed") /\ UNCHANGED opts
    /\ UNCHANGED <<cfg, containers, setupVars, callVars, baseline, launch,
                   stack, sessionStore, cfgLoaded, detach>>

\* _docker_login_if_needed(docker_token) with the token just prompted for
InitRelogin ==
    /\ pc = "init_relogin"
    /\ \E ok \in BOOLEAN :
          /\ trace' = Append(trace, UpOp("login", ok, "ambient"))
          /\ IF ok
             THEN pc' = "init_repull" /\ UNCHANGED <<exitCode, fatal>>
             ELSE RunFailed("login_failed")
    /\ UNCHANGED <<cfg, containers, setupVars, callVars, baseline, launch,
                   stack, opts, sessionStore, cfgLoaded, detach>>

\* the second _run(["docker", "pull", img]), inside the except block
InitRepull ==
    /\ pc = "init_repull"
    /\ \E ok \in BOOLEAN :
          /\ trace' = Append(trace, UpOp("pull", ok, "ambient"))
          /\ IF ok
             THEN /\ pc' = AfterImage(opts.img)
                  /\ opts' = [opts EXCEPT !.img = @ + 1]
                  /\ UNCHANGED <<exitCode, fatal>>
             ELSE RunFailed("pull_failed") /\ UNCHANGED opts
    /\ UNCHANGED <<cfg, containers, setupVars, callVars, baseline, launch,
                   stack, sessionStore, cfgLoaded, detach>>

\* "Initialization complete!"
InitDone ==
    /\ pc = "init_done"
    /\ pc' = "exited"
    /\ exitCode' = 0
    /\ UNCHANGED <<cfg, containers, setupVars, callVars, baseline, launch,
                   stack, opts, fatal, sessionStore, cfgLoaded, detach, trace>>

InitInit ==
    /\ cfg = [registries |-> <<[enabled |-> TRUE]>>,
              agents |-> <<[name |-> "a", disabled |-> FALSE]>>]
    /\ containers = [n \in Names |-> "absent"]
    /\ Idle
    /\ hin = NoInput
    /\ doc = NoDoc
    /\ loaded = NotLoaded
    /\ baseline = NoBaseline
    /\ launch = NoLaunch
    /\ stack = NoStack
    /\ opts = NoOpts
    /\ pc = "init_start"
    /\ exitCode = 0
    /\ fatal = "none"
    /\ sessionStore = "none"
    /\ cfgLoaded = FALSE
    /\ detach = FALSE
    /\ trace = <<>>

NextInit ==
    \/ InitTarget
    \/ InitTokens
    \/ InitClone
    \/ InitReclone
    \/ InitEnsureDocker
    \/ InitLogin
    \/ InitPull
    \/ InitRelogin
    \/ InitRepull
    \/ InitDone

SpecInit == InitInit /\ [][NextInit]_vars

-----------------------------------------------------------------------------
(* Claims about setup_agents_from_config, checked under SpecAgents *)

RegistryPositions == {"regs", "pwcmd", "login"}

AgentPositions == {"agents", "pull", "lookup", "wait_existing", "create",
                   "start", "wait_started"}

\* iterOps, report, pre and hg describe the pass over agent number agentIdx
InAgentPass == agentIdx >= 1 /\ spc \in AgentPositions \cup {"done"}

AgentPassOver == agentIdx >= 1 /\ spc \in {"agents", "done"}

\* iterOps and report describe the pass over enabled registry number regIdx
InRegistryPass == regIdx >= 1 /\ spc \in RegistryPositions

Count(o) == Cardinality({k \in DOMAIN iterOps : iterOps[k].op = o})

OpNames == [k \in DOMAIN iterOps |-> iterOps[k].op]

Failed(o) == \E k \in DOMAIN iterOps : iterOps[k].op = o /\ ~iterOps[k].ok

NoStepFailed == ~Failed("pull") /\ ~Failed("create") /\ ~Failed("start")

\* C1: for an agent whose container exists when its pass begins, the pass
\* issues nothing but the pull, the lookup and the health wait (no create, no
\* start, no restart, no remove), in every mode, and the reconciler leaves the
\* container as it was; so a create is only ever issued for a name that has
\* no container, at most once per pass, also for a name declared twice.
C1_NoSecondContainer ==
    InAgentPass =>
        /\ pre # "absent" =>
              /\ \A k \in DOMAIN iterOps :
                    iterOps[k].op \in {"pull", "get", "health"}
              /\ \/ containers[CName(Agent)] = pre
                 \/ containers[CName(Agent)] = "absent" /\ hg.cause = "notfound"
        /\ Count("create") <= 1
        /\ Count("create") = 1 => pre = "absent"

C1_Witness ==
    /\ spc = "agents"
    /\ agentIdx = 2
    /\ cfg.agents[1].name = cfg.agents[2].name
    /\ mode = "all"
    /\ pre = "running"
    /\ OpNames = <<"pull", "get", "health">>
    /\ containers[CName(Agent)] = "running"

\* C2: in mode none the reconciler enters neither loop, issues no operation,
\* waits on no container and leaves the runtime as it is, whatever the agent
\* list and the runtime state are.
C2_ModeNoneDoesNothing ==
    [][mode' = "none" =>
          /\ spc' \in {"idle", "done"}
          /\ regIdx' = 0
          /\ agentIdx' = 0
          /\ iterOps' = <<>>
          /\ ~hg'.called
          /\ agentStore' = "none"
          /\ containers' = containers]_vars

C2_Witness ==
    /\ mode = "none"
    /\ spc = "done"
    /\ Len(cfg.agents) = MaxAgents
    /\ \A k \in DOMAIN cfg.agents : ~cfg.agents[k].disabled
    /\ containers["a"] = "created"

\* C3: the pass over a disabled agent issues no pull, no create, no start and
\* no health wait, leaves its container as it was and is over at once: the
\* loop is back at its head, where the next agent is taken.
C3_DisabledSkipped ==
    (InAgentPass /\ Agent.disabled) =>
        /\ mode \in {"create", "all"}
        /\ iterOps = <<>>
        /\ ~hg.called
        /\ report = "skipped_disabled"
        /\ spc \in {"agents", "done"}
        /\ containers[CName(Agent)] = pre

C3_Witness ==
    /\ spc = "agents"
    /\ mode = "all"
    /\ agentIdx = 1
    /\ Agent.disabled
    /\ Len(cfg.agents) = 2
    /\ ~cfg.agents[2].disabled
    /\ ENABLED NextAgent

\* C4: in mode create, the finished pass over an enabled agent that had no
\* container and whose pull and create did not fail issued exactly one pull
\* and one create, no start and no health wait, left the container stopped
\* and reported "created".
C4_CreateMode ==
    (AgentPassOver /\ mode = "create" /\ ~Agent.disabled /\ pre = "absent"
        /\ ~Failed("pull") /\ ~Failed("create")) =>
        /\ OpNames = <<"pull", "get", "create">>
        /\ Count("pull") = 1
        /\ Count("create") = 1
        /\ Count("start") = 0
        /\ Count("health") = 0
        /\ ~hg.called
        /\ containers[CName(Agent)] = "created"
        /\ report = "created"

C4_Witness ==
    /\ AgentPassOver
    /\ mode = "create"
    /\ ~Agent.disabled
    /\ pre = "absent"
    /\ OpNames = <<"pull", "get", "create">>
    /\ NoStepFailed
    /\ report = "created"

\* C5 as stated: for an enabled agent with no existing container, mode all
\* causes one pull, one create, one start and the Health Gate, in this order.
C5_Original ==
    (AgentPassOver /\ mode = "all" /\ ~Agent.disabled /\ pre = "absent") =>
        OpNames = <<"pull", "get", "create", "start", "health">>

\* C5: in mode all, the finished pass over an enabled agent that had no
\* container and whose pull, create and start did not fail issued exactly one
\* pull, one create and one start and then entered the Health Gate, in this
\* order; a first poll that finds no health-check gives "ready" with no sleep.
C5_AllMode ==
    (AgentPassOver /\ mode = "all" /\ ~Agent.disabled /\ pre = "absent"
        /\ NoStepFailed) =>
        /\ OpNames = <<"pull", "get", "create", "start", "health">>
        /\ hg.called
        /\ hg.seen = <<"nohealth">> =>
              /\ hg.result
              /\ hg.sleeps = 0
              /\ report = "ready"
              /\ containers[CName(Agent)] = "running"

\* the Health Gate is never entered for a new container before its start
C5_Witness ==
    /\ AgentPassOver
    /\ mode = "all"
    /\ pre = "absent"
    /\ OpNames = <<"pull", "get", "create", "start", "health">>
    /\ NoStepFailed
    /\ hg.seen = <<"nohealth">>
    /\ report = "ready"

\* C6: a failed pull, create, start or health wait ends the pass over that
\* agent and nothing else: no operation follows the failed one in the pass,
\* the loop is back at its head, and when the reconciler is done it has gone
\* through the whole agent list.
C6_AgentFailureIsLocal ==
    /\ InAgentPass =>
          \A k \in DOMAIN iterOps :
              (~iterOps[k].ok /\ iterOps[k].op # "get") =>
                  /\ k = Len(iterOps)
                  /\ spc \in {"agents", "done"}
                  /\ agentFailed
    /\ (spc = "done" /\ mode # "none") => agentIdx = Len(cfg.agents)

C6_Witness ==
    /\ spc = "done"
    /\ agentIdx = 2
    /\ cfg.agents[1].name # cfg.agents[2].name
    /\ ~cfg.agents[1].disabled
    /\ agentFailed
    /\ NoStepFailed
    /\ report = "created"
    /\ containers[cfg.agents[1].name] = "absent"

\* C7: a registry whose secret is absent gets no password command and no
\* login, a registry whose password command failed gets no login, and a
\* skipped or failed registry ends only its own pass: the agent loop starts
\* after the last enabled registry and, when the reconciler is done, it has
\* gone through the whole agent list.
C7_RegistryFailureIsLocal ==
    /\ InRegistryPass =>
          /\ report = "login_skipped" => iterOps = <<>>
          /\ Failed("pwcmd") => OpNames = <<"pwcmd">>
          /\ Count("pwcmd") <= 1
          /\ Count("login") <= 1
          /\ (report \in {"login_skipped", "password_command_failed",
                          "login_failed"}) => (spc = "regs" /\ regFailed)
    /\ (spc \in (AgentPositions \cup {"done"}) /\ mode # "none") =>
          regIdx = Len(Regs)
    /\ (spc = "done" /\ mode # "none") => agentIdx = Len(cfg.agents)

C7_Witness ==
    /\ spc = "done"
    /\ regFailed
    /\ Len(Regs) = 2
    /\ regIdx = 2
    /\ agentIdx = Len(cfg.agents)
    /\ report = "created"

\* C21 as stated: the pass over an agent whose container already exists
\* enters the Health Gate only in mode all; in mode create it issues no
\* health wait and is over after the lookup, so that a run in mode create
\* never waits on a container's health.
C21_Original ==
    /\ (InAgentPass /\ pre # "absent" /\ hg.called) => mode = "all"
    /\ mode = "create" =>
          /\ spc # "wait_existing"
          /\ Count("health") = 0
          /\ ~hg.called

-----------------------------------------------------------------------------
(* Claims about repeated calls, checked under SpecRepeated *)

\* every enabled agent of the config has a container in the runtime cs
AllExistIn(cs) ==
    \A k \in DOMAIN cfg.agents :
        ~cfg.agents[k].disabled => cs[CName(cfg.agents[k])] # "absent"

\* this call follows one in the same mode, create or all, that left a
\* container for every enabled agent, and only the reconciler has acted since
SecondRun ==
    /\ baseline # NoBaseline
    /\ baseline.mode = mode
    /\ mode \in {"create", "all"}
    /\ AllExistIn(baseline.containers)

\* C22: a call of the reconciler that follows one in the same mode (create
\* or all) which left a container for every enabled agent, with no change to
\* the runtime by anyone else, issues no create and no start in any of its
\* passes and, at every point up to its return, the runtime holds the same
\* containers in the same running or stopped state as the first call left.
C22_Idempotent ==
    SecondRun =>
        /\ containers = baseline.containers
        /\ InAgentPass => (Count("create") = 0 /\ Count("start") = 0)

C22_Witness ==
    /\ SecondRun
    /\ spc = "done"
    /\ mode = "all"
    /\ Len(cfg.agents) = 2
    /\ cfg.agents[1].name # cfg.agents[2].name
    /\ \A k \in DOMAIN cfg.agents : ~cfg.agents[k].disabled
    /\ agentIdx = 2
    /\ OpNames = <<"pull", "get", "health">>
    /\ containers = [n \in Names |-> "running"]

-----------------------------------------------------------------------------
(* Claims about the environment of a new container, checked under SpecEnv *)

TracingNames == {LangfuseHost, LangfusePublicKey, LangfuseSecretKey}

\* the process environment holds k and k starts with a configured prefix
Forwarded(l, k) ==
    /\ l.environ[k] # Unset
    /\ \E i \in DOMAIN l.env_from : StartsWith(k, Rstrip(l.env_from[i]))

\* the three layers, the later over the earlier: static, tracing (with the
\* given fallback for an unset host), forwarded
Layered(l, k, hostFallback) ==
    IF Forwarded(l, k) THEN l.environ[k]
    ELSE IF k \in TracingNames
    THEN Getenv(l.environ, k, IF k = LangfuseHost THEN hostFallback ELSE "")
    ELSE l.environment[k]

\* C24 as stated: the environment of a new container is the static map,
\* overlaid with the three tracing variables from the process environment,
\* each the empty string when unset, overlaid with every process variable
\* whose name starts with an env_from prefix; nothing else is in it.
C24_Original ==
    launch.at = "created" =>
        \A k \in VarNames : launch.env[k] = Layered(launch, k, "")

\* C24: the environment of a new container is the static map, overlaid with
\* the three tracing variables from the process environment, where an unset
\* LANGFUSE_HOST is http://langfuse-web:3000 and an unset key is the empty
\* string, overlaid with every process variable whose name starts with an
\* env_from pattern less its trailing asterisks; the later layer wins, the
\* forwarded values are those of the process environment at that point, and
\* no other variable is in it.
C24_EnvLayers ==
    launch.at = "created" =>
        \A k \in VarNames : launch.env[k] = Layered(launch, k, DefaultHost)

\* all three layers collide and the host is unset
C24_Witness ==
    /\ launch.at = "created"
    /\ launch.environment[LangfuseHost] = "s"
    /\ launch.environment[<<"A">>] = "s"
    /\ launch.environment[<<"A", "B">>] = "s"
    /\ launch.environ[LangfuseHost] = Unset
    /\ launch.environ[LangfusePublicKey] = "p"
    /\ launch.environ[LangfuseSecretKey] = Unset
    /\ launch.environ[<<"A">>] = "p"
    /\ launch.environ[<<"A", "B">>] = Unset
    /\ launch.env_from = <<<<"L", "*">>, <<"A", "*", "*">>>>
    /\ launch.env[LangfuseHost] = DefaultHost
    /\ launch.env[LangfusePublicKey] = "p"
    /\ launch.env[LangfuseSecretKey] = ""
    /\ launch.env[<<"A">>] = "p"
    /\ launch.env[<<"A", "B">>] = "s"

-----------------------------------------------------------------------------
(* Claims about up_command, checked under Spec *)

Issued(o) == \E k \in DOMAIN trace : trace[k].op = o

\* the reconciler has not run and the runtime holds what it held at the start
SetupUntouched ==
    /\ spc = "idle"
    /\ regIdx = 0
    /\ agentIdx = 0
    /\ iterOps = <<>>
    /\ ~hg.called
    /\ agentStore = "none"
    /\ containers = [n \in Names |-> "absent"]

AbortCauses == {"no_runtime_cli", "hub_login_failed", "invalid_config",
                "no_env_file"}

\* C10: once the runtime CLI is found missing, the hub login (made when both
\* credentials are set) has failed, the config file has failed validation, or
\* neither environment file exists, the command has exited non-zero without
\* compose down, compose up, a registry login or an agent pull, create or
\* start; the CLI check of up and of status comes before every other step, so
\* a command that finds no CLI has issued nothing and holds no credential store.
C10_FatalAborts ==
    /\ fatal \in AbortCauses =>
          /\ pc = "exited"
          /\ exitCode # 0
          /\ ~Issued("compose_down")
          /\ ~Issued("compose_up")
          /\ ~Issued("setup_agents")
          /\ ~Issued("restart_gateway")
          /\ SetupUntouched
    /\ fatal = "no_runtime_cli" => (trace = <<>> /\ sessionStore = "none")
    /\ pc \in {"start", "status_start"} =>
          (trace = <<>> /\ sessionStore = "none" /\ SetupUntouched)

C10_Witness ==
    /\ pc = "exited"
    /\ fatal = "no_env_file"
    /\ exitCode = 1
    /\ cfgLoaded
    /\ trace = <<UpOp("hub_login", TRUE, "session")>>
    /\ sessionStore = "held"

\* the place of an operation of up_command in its run
Rank(o) ==
    CASE o = "hub_login" -> 0
      [] o = "compose_down" -> 1
      [] o = "compose_up" -> 2
      [] o = "setup_agents" -> 3
      [] o = "restart_gateway" -> 4
      [] o = "wait_for_gateway" -> 5
      [] OTHER -> 6

\* the running command is up
UpRun == pc \notin {"status_start", "status_list"} /\ ~Issued("list_containers")

LastOp == trace[Len(trace)]

\* C15: the operations of an up run are issued in the order teardown (only
\* and always when a fresh start was requested), compose up, registry logins,
\* agents, gateway restart, readiness wait (only when detached and asked
\* for), release of the session store: the reconciler is active only with a
\* loaded config and right after a successful compose up, it touches no agent
\* before it is through its registries, and the gateway restart follows the
\* return of the reconciler or, with no config, the compose up.
C15_UpOrder ==
    UpRun =>
      /\ \A j \in 1..(Len(trace) - 1) :
            Rank(trace[j].op) < Rank(trace[j + 1].op)
      /\ Issued("compose_down") => opts.fresh
      /\ (Issued("compose_up") /\ opts.fresh) => Issued("compose_down")
      /\ (pc = "in_setup" \/ spc # "idle") =>
            /\ pc = "in_setup"
            /\ cfgLoaded
            /\ LastOp = UpOp("compose_up", TRUE, "session")
      /\ (spc \in AgentPositions \/ agentIdx >= 1) => regIdx = Len(Regs)
      /\ spc \in RegistryPositions => agentIdx = 0
      /\ Issued("restart_gateway") =>
            /\ spc = "idle"
            /\ \E k \in DOMAIN trace : trace[k] = UpOp("compose_up", TRUE, "session")
            /\ cfgLoaded <=> Issued("setup_agents")
            /\ sessionStore = "held" <=> pc # "exited"
      /\ Issued("wait_for_gateway") => (detach /\ opts.wait)
      /\ sessionStore = "released" =>
            /\ pc = "exited"
            /\ exitCode = 0
            /\ Issued("restart_gateway")
            /\ (detach /\ opts.wait) => Issued("wait_for_gateway")

C15_Witness ==
    /\ sessionStore = "released"
    /\ cfgLoaded
    /\ mode = "all"
    /\ Len(cfg.agents) = MaxAgents
    /\ containers = [n \in Names |-> "running"]
    /\ Len(trace) = 5
    /\ trace[1].op = "compose_down"
    /\ trace[5].op = "wait_for_gateway"

\* operations that read or write a credential store
AgentCredentialOps == {"pwcmd", "login", "pull"}

SessionCredentialOps == {"hub_login", "compose_down", "compose_up"}

\* C16: every password command, registry login and agent pull of an up run
\* runs on the agent-phase store while that store is held, the hub login and
\* the compose up and down run on the session store while it is held, none
\* of them runs on the user's own runtime configuration, and the two stores
\* are different, so no operation of one phase runs on the store of the other.
C16_IsolatedStores ==
    UpRun =>
      /\ \A k \in DOMAIN iterOps :
            iterOps[k].op \in AgentCredentialOps =>
                /\ iterOps[k].env = "agents"
                /\ pc = "in_setup"
                /\ spc # "done" => agentStore = "held"
                /\ sessionStore = "held"
                /\ \A j \in DOMAIN trace : trace[j].env # iterOps[k].env
      /\ \A j \in DOMAIN trace :
            trace[j].op \in SessionCredentialOps =>
                /\ trace[j].env = "session"
                /\ sessionStore # "none"
      /\ spc \in (RegistryPositions \cup AgentPositions) => agentStore = "held"

C16_Witness ==
    /\ pc = "in_setup"
    /\ spc = "lookup"
    /\ iterOps = <<Op("pull", TRUE, "agents")>>
    /\ agentStore = "held"
    /\ sessionStore = "held"
    /\ trace = <<UpOp("hub_login", TRUE, "session"),
                 UpOp("compose_up", TRUE, "session")>>

\* up_command has returned
UpCompleted == UpRun /\ pc = "exited" /\ exitCode = 0

\* C17: the agent-phase store is held only inside a reconciler call whose
\* mode is not none, it is released when the reconciler is done, whatever
\* registry and agent failures occurred, and so before the gateway restart;
\* the session store is released by the last step of the command; once an up
\* run has completed no store is held.
C17_StoresReleased ==
    UpRun =>
      /\ agentStore = "held" =>
            /\ mode # "none"
            /\ pc = "in_setup"
            /\ spc \in (RegistryPositions \cup AgentPositions)
      /\ spc = "done" =>
            agentStore = (IF mode = "none" THEN "none" ELSE "released")
      /\ Issued("restart_gateway") => agentStore = "none"
      /\ sessionStore = "released" => UpCompleted
      /\ UpCompleted =>
            /\ sessionStore = "released"
            /\ agentStore # "held"
            /\ LastOp.op \in {"restart_gateway", "wait_for_gateway"}

C17_Witness ==
    /\ pc = "in_setup"
    /\ spc = "done"
    /\ mode = "all"
    /\ regFailed
    /\ agentFailed
    /\ agentStore = "released"
    /\ sessionStore = "held"

\* C18 as stated: whenever up_command has exited after it acquired the
\* session store, the fatal exits included, the store has been released.
C18_Original ==
    (UpRun /\ pc = "exited") => sessionStore # "held"

\* C19: a failed gateway restart does not end the command: the readiness
\* wait is still made when detached and asked for, the command completes
\* with exit status 0, as it does after a successful restart, and releases
\* the session store.
C19_RestartFailureSwallowed ==
    (UpRun /\ \E k \in DOMAIN trace :
                 trace[k].op = "restart_gateway" /\ ~trace[k].ok) =>
        /\ fatal = "none"
        /\ pc \in {"wait_ready", "cleanup", "exited"}
        /\ pc \in {"cleanup", "exited"} =>
              ((detach /\ opts.wait) <=> Issued("wait_for_gateway"))
        /\ pc = "exited" => (exitCode = 0 /\ sessionStore = "released")
        /\ pc # "exited" => sessionStore = "held"

C19_Witness ==
    /\ pc = "exited"
    /\ exitCode = 0
    /\ sessionStore = "released"
    /\ detach
    /\ Len(trace) = 3
    /\ trace[1].op = "compose_up"
    /\ trace[2].op = "restart_gateway"
    /\ ~trace[2].ok
    /\ trace[3].op = "wait_for_gateway"

-----------------------------------------------------------------------------
(* Claims about clean_command, checked under SpecClean *)

Destructive == {"down", "remove_containers", "remove_volumes",
                "remove_network"}

DestructiveIn(t) == \E k \in DOMAIN t : t[k].op \in Destructive

ConfirmedIn(t) == \E k \in DOMAIN t : t[k].op = "confirm" /\ t[k].ok

DeclinedIn(t) == \E k \in DOMAIN t : t[k].op = "confirm" /\ ~t[k].ok

\* C13: every step of clean leaves the trace without a destructive operation
\* (down, container, volume or network removal) unless --force was given or
\* the prompt was answered yes; the step at which the user declines exits
\* with code 0 and leaves the agent containers and the stack as they were.
C13_CleanNeedsConsent ==
    [][/\ DestructiveIn(trace') => (opts'.force \/ ConfirmedIn(trace'))
       /\ (containers' # containers \/ stack' # stack) =>
              (opts'.force \/ ConfirmedIn(trace'))
       /\ DeclinedIn(trace') =>
              /\ pc' = "exited"
              /\ exitCode' = 0
              /\ ~DestructiveIn(trace')
              /\ containers' = containers
              /\ stack' = stack]_vars

C13_Witness ==
    /\ pc = "exited"
    /\ exitCode = 0
    /\ ~opts.force
    /\ trace = <<UpOp("confirm", FALSE, "none")>>
    /\ containers = [n \in Names |-> "running"]
    /\ stack = FullStack

-----------------------------------------------------------------------------
(* Claims about init, checked under SpecInit *)

\* C14: when the target directory exists and is not empty, and when no
\* target directory is given while stdin is no terminal, init has exited
\* non-zero without a clone, a runtime login or an image pull; and every
\* image pull init issues comes after a clone that succeeded.
C14_InitAborts ==
    /\ fatal \in {"no_target_dir", "dir_not_empty"} =>
          /\ pc = "exited"
          /\ exitCode # 0
          /\ \A k \in DOMAIN trace : trace[k].op \notin {"clone", "login", "pull"}
    /\ \A k \in DOMAIN trace :
          trace[k].op = "pull" =>
              \E j \in 1..(k - 1) : trace[j].op = "clone" /\ trace[j].ok

C14_Witness ==
    /\ pc = "exited"
    /\ fatal = "dir_not_empty"
    /\ exitCode = 1
    /\ opts.tty
    /\ opts.dir = "nonempty"
    /\ trace = <<UpOp("prompt_dir", TRUE, "none")>>

\* what one step of init has added to the trace t, giving u
Added(t, u) == SubSeq(u, Len(t) + 1, Len(u))

\* the step t -> u has made an attempt of operation o, which failed
AttemptFailed(t, u, o) ==
    /\ Len(u) > Len(t)
    /\ u[Len(t) + 1].op = o
    /\ ~u[Len(t) + 1].ok

\* the step t -> u has asked for a token of the given kind after its attempt
AskedAfter(t, u, kind) ==
    /\ Len(Added(t, u)) = 2
    /\ u[Len(u)] = UpOp(kind, TRUE, "none")

\* init has exited non-zero at the failed attempt, asking for nothing
AbortedAt(t, u, p, code) ==
    /\ Len(Added(t, u)) = 1
    /\ p = "exited"
    /\ code # 0

Attempts(t, o) == Cardinality({k \in DOMAIN t : t[k].op = o})

\* one step of init, as C23 has it
NoAutomaticRetryStep ==
    /\ AttemptFailed(trace, trace', "clone") =>
         IF pc = "init_clone" /\ ~opts.ghToken /\ opts.tty
         THEN /\ AskedAfter(trace, trace', "ask_gh")
              /\ pc' = "init_reclone"
              /\ opts'.ghToken
         ELSE AbortedAt(trace, trace', pc', exitCode')
    /\ AttemptFailed(trace, trace', "pull") =>
         IF pc = "init_pull" /\ ~opts.dockerToken /\ opts.tty
         THEN /\ AskedAfter(trace, trace', "ask_docker")
              /\ pc' = "init_relogin"
              /\ opts'.dockerToken
         ELSE AbortedAt(trace, trace', pc', exitCode')
    /\ pc' = "init_reclone" => pc = "init_clone"
    /\ pc' = "init_relogin" => pc = "init_pull"
    /\ pc' = "init_repull" => pc = "init_relogin"
    /\ pc = "init_reclone" => pc' \in {"init_docker", "exited"}
    /\ pc = "init_repull" =>
         \/ pc' = "exited"
         \/ pc' = AfterImage(opts.img) /\ opts'.img = opts.img + 1
    /\ Attempts(trace', "clone") <= 2
    /\ Attempts(trace', "pull") <= RequiredImages + 1

\* C23: init repeats a failed clone, and a failed image pull, only after it
\* has asked the user for the token, which it does exactly when it holds no
\* token of that kind and stdin is a terminal; the token asked for is held
\* from then on. With no terminal, or with the token held (given by option,
\* environment or an earlier prompt of the run), the first failure ends init
\* with a non-zero exit; a failure of the repeated attempt ends init with a
\* non-zero exit; so init makes at most two clone attempts and at most one
\* repeated pull in a run.
C23_NoAutomaticRetry == [][NoAutomaticRetryStep]_vars

\* the second image's pull fails after the first was repeated with a token
\* the user was asked for: init ends there
C23_Witness ==
    /\ pc = "exited"
    /\ fatal = "pull_failed"
    /\ exitCode # 0
    /\ opts.tty
    /\ opts.img = 2
    /\ [k \in DOMAIN trace |-> trace[k].op] =
          <<"ask_gh", "ask_docker", "clone", "ask_gh", "clone", "pull",
            "ask_docker", "login", "pull", "pull">>
    /\ [k \in DOMAIN trace |-> trace[k].ok] =
          <<FALSE, FALSE, FALSE, TRUE, TRUE, FALSE, TRUE, TRUE, TRUE, FALSE>>

-----------------------------------------------------------------------------
(* Claims about Config, checked under SpecConfig *)

NoneOrEmpty(f) == f.kind = "absent" \/ (f.kind = "given" /\ f.items = <<>>)

LacksNameOrImage(e) == e.name = <<>> \/ e.ref \in {"none", "byconn"}

SomeAgentLacksKey(d) ==
    \E k \in DOMAIN d.agents.items : LacksNameOrImage(d.agents.items[k])

WrongVersion(d) == d.version # <<>> /\ d.version # <<1>>

\* every collection is a collection and every registry entry has its url
WellFormed(d) ==
    /\ d.registries.kind # "null"
    /\ d.agents.kind # "null"
    /\ \A k \in DOMAIN d.registries.items : d.registries.items[k].url

ImagesInOrder ==
    loaded.queried =>
        /\ Len(loaded.images) = Len(doc.agents.items)
        /\ \A k \in DOMAIN loaded.images :
              loaded.images[k] = doc.agents.items[k].ref

\* a document as tests/test_config.py writes it: registry connections, and
\* agents named by registry_connection, repo and tag
DeclaredByConnection(d) ==
    /\ d.file = "mapping"
    /\ ~WrongVersion(d)
    /\ d.connections
    /\ d.agents.kind = "given"
    /\ d.agents.items # <<>>
    /\ \A k \in DOMAIN d.agents.items :
          /\ d.agents.items[k].name # <<>>
          /\ d.agents.items[k].ref = "byconn"

\* C12 as stated: images() returns one reference per declared agent in
\* declaration order, and a config whose agents are declared by registry
\* connection, repo and tag is a valid config for which images() returns
\* the composed references.
C12_Original ==
    /\ ImagesInOrder
    /\ (loaded.called /\ DeclaredByConnection(doc)) => loaded.ok

-----------------------------------------------------------------------------
(* Claims about the Health Gate, checked under SpecHealth *)

LastSeen == hg.seen[Len(hg.seen)]

NonDecisiveSeen == {k \in 1..Len(hg.seen) : hg.seen[k] \in NonDecisive}

\* C8: the gate returns at the first poll whose observation is decisive and
\* neither sleeps nor polls after it: every observation before the last one
\* polled is non-decisive, there is exactly one sleep per non-decisive
\* observation, and the last observation decides the result (no health-check
\* and healthy give True, unhealthy and a vanished container give False).
C8_ReturnsAtFirstDecisive ==
    hg.called =>
        /\ \A k \in 1..Len(hg.seen) : hg.seen[k] = ObsAt(hin.timeline, k)
        /\ \A k \in 1..(Len(hg.seen) - 1) : hg.seen[k] \in NonDecisive
        /\ hg.sleeps = Cardinality(NonDecisiveSeen)
        /\ (hg.seen # <<>> /\ LastSeen \in Decisive) =>
              /\ hg.sleeps = Len(hg.seen) - 1
              /\ LastSeen = "nohealth" => (hg.result /\ hg.cause = "nohealth")
              /\ LastSeen = "healthy" => (hg.result /\ hg.cause = "healthy")
              /\ LastSeen = "unhealthy" => (~hg.result /\ hg.cause = "unhealthy")
              /\ LastSeen = "gone" => (~hg.result /\ hg.cause = "notfound")
        /\ hg.cause # "timeout" => (hg.seen # <<>> /\ LastSeen \in Decisive)

C8_Witness ==
    /\ hg.called
    /\ hg.seen = <<"starting", "unhealthy">>
    /\ hg.sleeps = 1
    /\ ~hg.result

\* C9: the gate terminates after at most timeout / PollInterval + 1 polls; a
\* container that never shows a decisive status gives the timed-out failure
\* result, returned once the deadline has passed; with timeout 0 the gate
\* returns the failure result without polling.
C9_TimesOut ==
    hg.called =>
        /\ Len(hg.seen) <= (hin.timeout \div PollInterval) + 1
        /\ (\A k \in 1..Len(hin.timeline) : hin.timeline[k] \in NonDecisive) =>
              /\ hg.cause = "timeout"
              /\ ~hg.result
              /\ hg.elapsed >= Deadline(0, hin.timeout)
        /\ hin.timeout = 0 => (hg.seen = <<>> /\ hg.sleeps = 0 /\ ~hg.result)

C9_Witness ==
    /\ hg.called
    /\ hin.timeout = MaxTimeout
    /\ hin.timeline = <<"starting", "none">>
    /\ hin.latency = 0
    /\ hg.cause = "timeout"
    /\ Len(hg.seen) = (MaxTimeout \div PollInterval) + 1

\* the four conditions a wait can end in; no health-check counts as healthy
Condition(cause) == IF cause = "nohealth" THEN "healthy" ELSE cause

\* C20 as stated: two calls of the Health Gate that end in different ones of
\* the conditions healthy, unhealthy, timed out and not found return
\* different results.
C20_Original ==
    hg.called =>
        \A i \in HealthInputs :
            LET g == WaitForAgentHealthy(i.timeline, i.latency, i.timeout)
            IN Condition(g.cause) # Condition(hg.cause) =>
                   g.result # hg.result

====
